---- MODULE Spec2Model ----
(***************************************************************************)
(* A model of the t2p pipeline core: the processed-file tracker and the    *)
(* `work` command (src/src/commands/work.ts), the post store               *)
(* (src/src/services/file-system.ts), the banger evaluation parser         *)
(* (src/src/utils/banger-eval.ts), `posts --eval`                          *)
(* (src/src/commands/posts.ts) and the review loop                         *)
(* (src/src/commands/review.ts).                                           *)
(*                                                                         *)
(* Text (backend responses, post contents) is a sequence of lexemes: the   *)
(* punctuation characters the regular expressions and JSON.parse look at   *)
(* are lexemes of their own, also inside a string literal, so that the     *)
(* extraction regexes see exactly the characters the code's regexes see.   *)
(***************************************************************************)
EXTENDS Integers, Sequences, FiniteSets, TLC

VARIABLES
  files,      \* input/: document -> [mtime (ms of stats.mtime), kind of content]
  stateFile,  \* .shippost-state.json: processedFiles, document -> record or NoRecord
  postsFile,  \* posts.jsonl: the sequence of stored posts
  drafts,     \* the draft service: the drafts createDraft has created
  work,       \* the `work` command's run: position, loop variables, counters
  review,     \* the `review` command's session
  pev,        \* the `posts --eval` command's run
  uuids,      \* randomUUID: how many ids have been drawn
  fn,         \* a pure function under test: its argument and its result
  hist,       \* history: the last `work` run that saved its state
  last        \* history: the last step taken and the inputs it drew

vars == <<files, stateFile, postsFile, drafts, work, review, pev, uuids, fn, hist, last>>

----------------------------------------------------------------------------
(* Bounds of the model.                                                    *)

MaxTime == 2    \* modification times range over 1..MaxTime
MaxPosts == 3   \* the post store holds at most MaxPosts posts
MaxCand == 2    \* a generation response lists at most MaxCand items
MaxDrafts == 2  \* the service holds at most MaxDrafts drafts of one post
MaxTarget == 3  \* targetCount ranges over 0..MaxTarget

Docs == {"input/a.txt", "input/b.md"}
DirOrder == <<"input/a.txt", "input/b.md">>   \* the order readdirSync lists them in

Min(S) == CHOOSE x \in S : \A y \in S : x <= y
Max(S) == CHOOSE x \in S : \A y \in S : x >= y

----------------------------------------------------------------------------
(* Lexemes and JSON values.                                                *)

Q == "\""
NL == "\n"          \* a line feed
EscQ == "\\\""      \* the two characters backslash, quote
EscNL == "\\n"      \* the two characters backslash, n

Numerals == {"-5", "0", "1", "5", "50", "75", "99", "150"}

NumeralValue(l) ==
  CASE l = "-5" -> -5
    [] l = "0" -> 0
    [] l = "1" -> 1
    [] l = "5" -> 5
    [] l = "50" -> 50
    [] l = "75" -> 75
    [] l = "99" -> 99
    [] l = "150" -> 150

Literals == {"null", "true", "false"}

JValue(t, n, s, kv, el) == [t |-> t, n |-> n, s |-> s, kv |-> kv, el |-> el]
Undefined == JValue("undefined", 0, <<>>, <<>>, <<>>)
NumberV(n) == JValue("number", n, <<>>, <<>>, <<>>)
StringV(s) == JValue("string", 0, s, <<>>, <<>>)
LiteralV(l) == JValue(l, 0, <<>>, <<>>, <<>>)
ObjectV(kv) == JValue("object", 0, <<>>, kv, <<>>)
ArrayV(el) == JValue("array", 0, <<>>, <<>>, el)

At(t, i) == IF i \in 1..Len(t) THEN t[i] ELSE "<eof>"

ParseFail == [ok |-> FALSE, v |-> Undefined, i |-> 0]
ParseOk(v, i) == [ok |-> TRUE, v |-> v, i |-> i]

\* The characters an escaped string literal stands for.
Unescape(s) ==
  [j \in 1..Len(s) |-> IF s[j] = EscQ THEN Q ELSE IF s[j] = EscNL THEN NL ELSE s[j]]

\* A string literal starting at the quote t[i]: its content runs to the next quote;
\* a line feed inside it is a SyntaxError.
ParseString(t, i) ==
  LET ends == {j \in (i + 1)..Len(t) : t[j] = Q}
  IN IF ends = {} THEN ParseFail
     ELSE IF \E j \in (i + 1)..(Min(ends) - 1) : t[j] = NL THEN ParseFail
     ELSE ParseOk(StringV(Unescape(SubSeq(t, i + 1, Min(ends) - 1))), Min(ends) + 1)

RECURSIVE ParseValue(_, _)
RECURSIVE ParseMembers(_, _, _)
RECURSIVE ParseElements(_, _, _)

\* The members of an object after its "{" or after a ",": "key" : value, ... }
ParseMembers(t, i, acc) ==
  IF At(t, i) # Q THEN ParseFail
  ELSE LET k == ParseString(t, i)
       IN IF ~k.ok \/ At(t, k.i) # ":" THEN ParseFail
          ELSE LET v == ParseValue(t, k.i + 1)
               IN IF ~v.ok THEN ParseFail
                  ELSE IF At(t, v.i) = ","
                    THEN ParseMembers(t, v.i + 1, Append(acc, [k |-> k.v.s, v |-> v.v]))
                  ELSE IF At(t, v.i) = "}"
                    THEN ParseOk(ObjectV(Append(acc, [k |-> k.v.s, v |-> v.v])), v.i + 1)
                  ELSE ParseFail

\* The elements of an array after its "[" or after a ",": value, ... ]
ParseElements(t, i, acc) ==
  LET v == ParseValue(t, i)
  IN IF ~v.ok THEN ParseFail
     ELSE IF At(t, v.i) = "," THEN ParseElements(t, v.i + 1, Append(acc, v.v))
     ELSE IF At(t, v.i) = "]" THEN ParseOk(ArrayV(Append(acc, v.v)), v.i + 1)
     ELSE ParseFail

ParseValue(t, i) ==
  LET c == At(t, i)
  IN CASE c = "{" -> IF At(t, i + 1) = "}" THEN ParseOk(ObjectV(<<>>), i + 2)
                     ELSE ParseMembers(t, i + 1, <<>>)
       [] c = "[" -> IF At(t, i + 1) = "]" THEN ParseOk(ArrayV(<<>>), i + 2)
                     ELSE ParseElements(t, i + 1, <<>>)
       [] c = Q -> ParseString(t, i)
       [] c \in Numerals -> ParseOk(NumberV(NumeralValue(c)), i + 1)
       [] c \in Literals -> ParseOk(LiteralV(c), i + 1)
       [] OTHER -> ParseFail

\* JSON.parse: one value and nothing after it; ok = FALSE is the SyntaxError.
JSONParse(t) ==
  LET r == ParseValue(t, 1)
  IN IF r.ok /\ r.i = Len(t) + 1 THEN r ELSE ParseFail

\* v[key] for a parsed value: the last member of that name, undefined otherwise.
Get(v, key) ==
  LET hits == IF v.t = "object" THEN {j \in 1..Len(v.kv) : v.kv[j].k = <<key>>} ELSE {}
  IN IF hits = {} THEN Undefined ELSE v.kv[Max(hits)].v

TypeOf(v) ==
  CASE v.t \in {"true", "false"} -> "boolean"
    [] v.t \in {"null", "array"} -> "object"
    [] OTHER -> v.t

Truthy(v) ==
  CASE v.t = "number" -> v.n # 0
    [] v.t = "string" -> v.s # <<>>
    [] v.t \in {"object", "array", "true"} -> TRUE
    [] OTHER -> FALSE

----------------------------------------------------------------------------
(* The regular expressions of the two response parsers.                    *)

NoMatch == [found |-> FALSE, text |-> <<>>]

\* response.match(/\{[\s\S]*?\}/): from the first "{" to the first "}" after it.
MatchFirstObject(response) ==
  LET opens == {i \in 1..Len(response) : response[i] = "{"}
      closes == IF opens = {} THEN {}
                ELSE {j \in (Min(opens) + 1)..Len(response) : response[j] = "}"}
  IN IF closes = {} THEN NoMatch
     ELSE [found |-> TRUE, text |-> SubSeq(response, Min(opens), Min(closes))]

\* response.match(/\[[\s\S]*\]/): from the first "[" to the last "]" after it.
MatchArray(response) ==
  LET opens == {i \in 1..Len(response) : response[i] = "["}
      closes == IF opens = {} THEN {}
                ELSE {j \in (Min(opens) + 1)..Len(response) : response[j] = "]"}
  IN IF closes = {} THEN NoMatch
     ELSE [found |-> TRUE, text |-> SubSeq(response, Min(opens), Max(closes))]

----------------------------------------------------------------------------
(* The banger evaluation parser.                                           *)

NullEval == [null |-> TRUE, score |-> 0, breakdown |-> Undefined, reasoning |-> <<>>]

\* The clamp without its lower end.
ClampScoreAbove(score) == Min({99, score})

\* Math.max(1, Math.min(99, score))
ClampScore(score) == Max({1, Min({99, score})})

parseBangerEval(response) ==
  LET jsonMatch == MatchFirstObject(response)
  IN IF ~jsonMatch.found THEN NullEval
     ELSE LET parsed == JSONParse(jsonMatch.text)
              evaluation == parsed.v
          IN IF ~parsed.ok THEN NullEval
             ELSE IF \/ TypeOf(Get(evaluation, "score")) # "number"
                     \/ ~Truthy(Get(evaluation, "breakdown"))
                     \/ TypeOf(Get(evaluation, "reasoning")) # "string"
               THEN NullEval
             ELSE [null |-> FALSE,
                   score |-> ClampScore(Get(evaluation, "score").n),
                   breakdown |-> Get(evaluation, "breakdown"),
                   reasoning |-> Get(evaluation, "reasoning").s]

----------------------------------------------------------------------------
(* The structured response parser of `work`.                               *)

\* parsed.filter((item) => item && typeof item.content === 'string')
RECURSIVE FilterItems(_)
FilterItems(el) ==
  IF el = <<>> THEN <<>>
  ELSE LET item == Head(el)
       IN IF Truthy(item) /\ TypeOf(Get(item, "content")) = "string"
            THEN <<Get(item, "content").s>> \o FilterItems(Tail(el))
          ELSE FilterItems(Tail(el))

\* The contents of the accepted items; <<>> when the catch block returns [].
parsePostsFromResponse(response) ==
  LET jsonMatch == MatchArray(response)
  IN IF ~jsonMatch.found THEN <<>>
     ELSE LET parsed == JSONParse(jsonMatch.text)
          IN IF ~parsed.ok THEN <<>>
             ELSE IF parsed.v.t # "array" THEN <<>>
             ELSE FilterItems(parsed.v.el)

----------------------------------------------------------------------------
(* What the backend may answer.                                            *)

JString(words) == <<Q>> \o words \o <<Q>>
JMember(key, text) == JString(<<key>>) \o <<":">> \o text

RECURSIVE JoinWith(_, _)
JoinWith(parts, sep) ==
  IF parts = <<>> THEN <<>>
  ELSE IF Len(parts) = 1 THEN Head(parts)
  ELSE Head(parts) \o <<sep>> \o JoinWith(Tail(parts), sep)

\* The breakdown of the documented output format: an object of named components.
BreakdownObject ==
  <<"{">> \o JMember("hook", <<"5">>) \o <<",">> \o JMember("value", <<"5">>) \o <<"}">>

ScoreTexts ==
  {<<>>, <<"-5">>, <<"0">>, <<"1">>, <<"50">>, <<"99">>, <<"150">>, JString(<<"75">>)}
BreakdownTexts ==
  {<<>>, BreakdownObject, <<"{", "}">>, <<"5">>, <<"0">>, JString(<<"high">>),
   <<"null">>, <<"[", "5", "]">>}
ReasoningTexts ==
  {<<>>, JString(<<"Strong", "hook">>), JString(<<>>), <<"5">>}
PrefixTexts ==
  {<<>>, <<"Here", "is", "my", "evaluation", ":">>, <<"Rating", "{", "draft", "}", ":">>}
SuffixTexts == {<<>>, <<"Hope", "this", "helps">>}

\* An evaluation response: text, an object of the members given (<<>>: no such
\* member), text. obj = FALSE: a response with no object at all.
EvalCases ==
  [obj : BOOLEAN, prefix : PrefixTexts, score : ScoreTexts, breakdown : BreakdownTexts,
   reasoning : ReasoningTexts, suffix : SuffixTexts]

EvalMembers(c) ==
  (IF c.score = <<>> THEN <<>> ELSE <<JMember("score", c.score)>>)
  \o (IF c.breakdown = <<>> THEN <<>> ELSE <<JMember("breakdown", c.breakdown)>>)
  \o (IF c.reasoning = <<>> THEN <<>> ELSE <<JMember("reasoning", c.reasoning)>>)

RenderEval(c) ==
  IF c.obj
    THEN c.prefix \o <<"{">> \o JoinWith(EvalMembers(c), ",") \o <<"}">> \o c.suffix
  ELSE c.prefix \o c.suffix

EvalCase(score, breakdown, reasoning) ==
  [obj |-> TRUE, prefix |-> <<>>, score |-> score, breakdown |-> breakdown,
   reasoning |-> reasoning, suffix |-> <<>>]

\* The evaluation responses the commands are run against.
PipelineEvalCases ==
  {EvalCase(<<"75">>, BreakdownObject, JString(<<"Strong", "hook">>)),
   EvalCase(<<"-5">>, <<"[", "5", "]">>, JString(<<"Strong", "hook">>)),
   EvalCase(<<"50">>, <<"[", "5", "]">>, JString(<<"Strong", "hook">>)),
   EvalCase(<<"150">>, <<"[", "5", "]">>, JString(<<"Strong", "hook">>)),
   EvalCase(<<>>, <<"[", "5", "]">>, JString(<<"Strong", "hook">>))}

\* The items of a generation response.
GoodContent == <<"Ship", "small">>
PlaceholderContent == <<"Join", "[", "Company", "]", "today">>
ItemTexts ==
  {<<"{">> \o JMember("content", JString(GoodContent)) \o <<"}">>,
   <<"{">> \o JMember("content", JString(PlaceholderContent)) \o <<"}">>,
   <<"{">> \o JMember("content", <<"5">>) \o <<"}">>}

ItemLists == UNION {[1..n -> ItemTexts] : n \in 1..MaxCand}

GenResponses ==
  {<<"[">> \o JoinWith(items, ",") \o <<"]">> : items \in ItemLists}
  \cup {<<"Sorry", ",", "no", "posts">>,
        <<"Here", "are", "[", "1", "]", "posts", ":", "[">>
          \o <<"{">> \o JMember("content", JString(GoodContent)) \o <<"}">> \o <<"]">>}

----------------------------------------------------------------------------
(* The file system, the tracker and the post store.                        *)

\* findInputFiles: the documents of input/, in listing order.
RECURSIVE Listing(_, _)
Listing(fs, order) ==
  IF order = <<>> THEN <<>>
  ELSE (IF fs[Head(order)].kind = "absent" THEN <<>> ELSE <<Head(order)>>)
       \o Listing(fs, Tail(order))

findInputFiles == Listing(files, DirOrder)

\* Date.prototype.toISOString of a time in ms: the seconds and the milliseconds.
toISOString(ms) == <<ms \div 1000, ms % 1000>>

NoRecord == [path |-> "", modifiedAt |-> <<>>, postsGenerated |-> 0]
EmptyState == [d \in Docs |-> NoRecord]        \* { processedFiles: {} }

\* The record compared with the time in ms instead of its ISO form.
isFileProcessedRawTime(filePath, state) ==
  LET fileInfo == state[filePath]
  IN IF fileInfo = NoRecord THEN FALSE
     ELSE fileInfo.modifiedAt = <<files[filePath].mtime>>

\* The record found, its modification time not compared.
isFileProcessedNoCompare(filePath, state) == state[filePath] # NoRecord

\* The record compared with the time last known, whether the file can be stat'ed or not.
isFileProcessedNoStat(filePath, state) ==
  LET fileInfo == state[filePath]
  IN IF fileInfo = NoRecord THEN FALSE
     ELSE fileInfo.modifiedAt = toISOString(files[filePath].mtime)

\* statSync raises for a path that is not there: the catch returns false.
isFileProcessed(filePath, state) ==
  LET fileInfo == state[filePath]
  IN IF fileInfo = NoRecord THEN FALSE
     ELSE IF files[filePath].kind = "absent" THEN FALSE
     ELSE fileInfo.modifiedAt = toISOString(files[filePath].mtime)

markFileProcessed(filePath, postsGenerated, state) ==
  [state EXCEPT ![filePath] =
     [path |-> filePath,
      modifiedAt |-> toISOString(files[filePath].mtime),
      postsGenerated |-> postsGenerated]]

\* A post as createPost makes it; an absent optional field is the empty set.
NewPost(id, sourceFile, content) ==
  [id |-> id, sourceFile |-> sourceFile, content |-> content, status |-> "new",
   bangerScore |-> {}, bangerEvaluation |-> NullEval, typefullyDraftId |-> {}]

createPost(sourceFile, content) == NewPost(uuids + 1, sourceFile, content)

\* The evaluation attached to a post that is made anew, its status with it.
WithEvaluationAsNew(post, evaluation) ==
  IF evaluation.null THEN post
  ELSE [post EXCEPT !.bangerScore = {evaluation.score}, !.bangerEvaluation = evaluation,
                    !.status = "new"]

\* post.metadata.bangerScore = evaluation.score; bangerEvaluation = evaluation
WithEvaluation(post, evaluation) ==
  IF evaluation.null THEN post
  ELSE [post EXCEPT !.bangerScore = {evaluation.score}, !.bangerEvaluation = evaluation]

\* (p.metadata.bangerScore || 0)
ScoreOrZero(post) == IF post.bangerScore = {} THEN 0 ELSE Max(post.bangerScore)

----------------------------------------------------------------------------
(* History of the last step, for the properties.                           *)

NoStep ==
  [op |-> "none", id |-> 0, eval |-> "none", raw |-> 0, prev |-> "none", minScore |-> {}]

\* What an evaluation call did: the backend raised ("error"), the parser returned null
\* ("null"), or an evaluation was attached ("ok", with the score the backend gave).
BackendError == [error |-> TRUE, case |-> EvalCase(<<>>, <<>>, <<>>)]
EvalOutcomes == {BackendError} \cup [error : {FALSE}, case : PipelineEvalCases]
TypicalOutcomes ==
  {[error |-> FALSE,
    case |-> EvalCase(<<"50">>, <<"[", "5", "]">>, JString(<<"Strong", "hook">>))]}

\* parseBangerEval(evalResponse) for each response of the pipeline.
Evaluations == [c \in PipelineEvalCases |-> parseBangerEval(RenderEval(c))]

EvalOf(o) == IF o.error THEN NullEval ELSE Evaluations[o.case]

EvalStep(op, id, o) ==
  [op |-> op, id |-> id,
   eval |-> IF o.error THEN "error" ELSE IF EvalOf(o).null THEN "null" ELSE "ok",
   raw |-> IF o.error \/ o.case.score \notin {<<n>> : n \in Numerals} THEN 0
           ELSE NumeralValue(o.case.score[1]),
   prev |-> "none", minScore |-> {}]

----------------------------------------------------------------------------
(* The `work` command.                                                     *)

WorkIdle ==
  [pc |-> "idle", force |-> FALSE, inputFiles |-> <<>>, idx |-> 0, state |-> EmptyState,
   cands |-> <<>>, nposts |-> 0, processed |-> 0, generated |-> 0, errors |-> 0,
   skipped |-> 0,
   \* how the last run ended: "none", "failure" (exit code 1) or "killed"
   exit |-> "none",
   \* history of the run: the posts appended per document, the times at its start
   appended |-> [d \in Docs |-> 0], startMtimes |-> [d \in Docs |-> 0],
   \* the modification time each document had when its transcript was read
   readMtimes |-> [d \in Docs |-> 0]]

ReviewIdle ==
  [pc |-> "idle", allPosts |-> <<>>, postsToReview |-> <<>>, i |-> 0,
   \* history of the session: how it ended, the status the post being staged had,
   \* the decisions made, the posts whose staging failed
   end |-> "none", prev |-> "none", decided |-> {}, failed |-> {}]

PevIdle == [pc |-> "idle", posts |-> <<>>, todo |-> <<>>, i |-> 0, evaluated |-> 0]

FnIdle == [op |-> "none", arg |-> <<>>, done |-> FALSE, out |-> NullEval]

NoCommandRuns == work.pc = "idle" /\ review.pc = "idle" /\ pev.pc = "idle"

CurrentFile == work.inputFiles[work.idx]

\* `continue`, or the end of the loop body: the next file, or the end of the loop.
NextFile(w) ==
  [w EXCEPT !.idx = w.idx + 1, !.cands = <<>>, !.nposts = 0,
            !.pc = IF w.idx + 1 > Len(w.inputFiles) THEN "save" ELSE "check"]

\* The start of a run that begins from an empty state when forced.
WorkStartForceClears(force) ==
  /\ NoCommandRuns
  /\ findInputFiles # <<>>
  /\ work' = [WorkIdle EXCEPT !.pc = "check", !.force = force, !.idx = 1,
                              !.inputFiles = findInputFiles,
                              !.state = IF force THEN EmptyState ELSE stateFile,
                              !.startMtimes = [d \in Docs |-> files[d].mtime]]
  /\ last' = NoStep
  /\ UNCHANGED <<files, stateFile, postsFile, drafts, review, pev, uuids, fn, hist>>

\* The run starts: the setup succeeds, the input files are listed, the state loaded.
WorkStart(force) ==
  /\ NoCommandRuns
  /\ findInputFiles # <<>>
  /\ work' = [WorkIdle EXCEPT !.pc = "check", !.force = force, !.idx = 1,
                              !.inputFiles = findInputFiles, !.state = stateFile,
                              !.startMtimes = [d \in Docs |-> files[d].mtime]]
  /\ last' = NoStep
  /\ UNCHANGED <<files, stateFile, postsFile, drafts, review, pev, uuids, fn, hist>>

\* The top of the loop body: the tracker's check, then the read of the transcript;
\* the step ends at the await of the generation call. readFileSync raises for a file
\* that cannot be read or is gone (the per-file catch counts an error); an empty
\* transcript is passed over with `continue`, no counter touched.
WorkCheck ==
  /\ work.pc = "check"
  /\ work' = IF ~work.force /\ isFileProcessed(CurrentFile, work.state)
               THEN NextFile([work EXCEPT !.skipped = work.skipped + 1])
             ELSE IF files[CurrentFile].kind \in {"unreadable", "absent"}
               THEN NextFile([work EXCEPT !.errors = work.errors + 1])
             ELSE IF files[CurrentFile].kind = "empty"
               THEN NextFile(work)
             ELSE [work EXCEPT !.pc = "generate",
                               !.readMtimes[CurrentFile] = files[CurrentFile].mtime]
  /\ last' = NoStep
  /\ UNCHANGED <<files, stateFile, postsFile, drafts, review, pev, uuids, fn, hist>>

\* The generation call raises and the document is marked processed with no posts.
WorkGenerateErrorMarks ==
  /\ work.pc = "generate"
  /\ work' = NextFile([work EXCEPT !.errors = work.errors + 1,
                                   !.state = markFileProcessed(CurrentFile, 0, work.state)])
  /\ last' = [NoStep EXCEPT !.op = "generate raised"]
  /\ UNCHANGED <<files, stateFile, postsFile, drafts, review, pev, uuids, fn, hist>>

\* The generation call raises: the per-file catch counts an error.
WorkGenerateError ==
  /\ work.pc = "generate"
  /\ work' = NextFile([work EXCEPT !.errors = work.errors + 1])
  /\ last' = [NoStep EXCEPT !.op = "generate raised"]
  /\ UNCHANGED <<files, stateFile, postsFile, drafts, review, pev, uuids, fn, hist>>

\* parsePostsFromResponse(response) for each response of the backend.
ParsedPosts == [r \in GenResponses |-> parsePostsFromResponse(r)]

\* The generation call returns: the response is parsed.
WorkGenerate(response) ==
  /\ work.pc = "generate"
  /\ LET posts == ParsedPosts[response]
     IN /\ Len(postsFile) + Len(posts) <= MaxPosts
        /\ work' = IF Len(posts) = 0
                     THEN NextFile([work EXCEPT !.errors = work.errors + 1])
                   ELSE [work EXCEPT !.pc = "posts", !.cands = posts,
                                     !.nposts = Len(posts)]
        /\ last' = IF Len(posts) = 0 THEN [NoStep EXCEPT !.op = "no posts parsed"]
                   ELSE NoStep
  /\ UNCHANGED <<files, stateFile, postsFile, drafts, review, pev, uuids, fn, hist>>

\* After the last post of a file: the counters, and the file is marked processed.
\* statSync in markFileProcessed raises for a file that is gone: the per-file catch
\* counts an error, after the counters of a processed file have been raised.
AfterPosts(w) ==
  IF Len(w.cands) > 0 THEN w
  ELSE LET counted == [w EXCEPT !.processed = w.processed + 1,
                                !.generated = w.generated + w.nposts]
       IN IF files[CurrentFile].kind = "absent"
            THEN NextFile([counted EXCEPT !.errors = w.errors + 1])
          ELSE NextFile([counted EXCEPT
                           !.state = markFileProcessed(CurrentFile, w.nposts, w.state)])

\* The post loop with the append inside `if (evaluation)`.
WorkEvalAppendIfEvaluated(o) ==
  /\ work.pc = "posts"
  /\ LET post == WithEvaluation(createPost(CurrentFile, Head(work.cands)), EvalOf(o))
     IN /\ postsFile' = IF EvalOf(o).null THEN postsFile ELSE Append(postsFile, post)
        /\ last' = EvalStep("WorkEvalAppend", post.id, o)
  /\ uuids' = uuids + 1
  /\ work' = AfterPosts([work EXCEPT !.cands = Tail(work.cands),
                            !.appended[CurrentFile] = work.appended[CurrentFile] + 1])
  /\ UNCHANGED <<files, stateFile, drafts, review, pev, fn, hist>>

\* One turn of the post loop: create the post, evaluate it, append it.
WorkEvalAppend(o) ==
  /\ work.pc = "posts"
  /\ LET post == WithEvaluation(createPost(CurrentFile, Head(work.cands)), EvalOf(o))
     IN /\ postsFile' = Append(postsFile, post)
        /\ last' = EvalStep("WorkEvalAppend", post.id, o)
  /\ uuids' = uuids + 1
  /\ work' = AfterPosts([work EXCEPT !.cands = Tail(work.cands),
                            !.appended[CurrentFile] = work.appended[CurrentFile] + 1])
  /\ UNCHANGED <<files, stateFile, drafts, review, pev, fn, hist>>

\* After the loop: the state is saved and the summary printed.
WorkSave ==
  /\ work.pc = "save"
  /\ stateFile' = work.state
  /\ work' = [work EXCEPT !.pc = "summary"]
  /\ hist' = [ran |-> TRUE, mtimes |-> work.startMtimes]
  /\ last' = NoStep
  /\ UNCHANGED <<files, postsFile, drafts, review, pev, uuids, fn>>

\* The process ends.
WorkExit ==
  /\ work.pc = "summary"
  /\ work' = WorkIdle
  /\ last' = NoStep
  /\ UNCHANGED <<files, stateFile, postsFile, drafts, review, pev, uuids, fn, hist>>

\* Someone edits a document: its modification time moves on.
EditFile(d) ==
  /\ files[d].kind # "absent"
  /\ files[d].mtime < MaxTime
  /\ files' = [files EXCEPT ![d].mtime = files[d].mtime + 1]
  /\ last' = NoStep
  /\ UNCHANGED <<stateFile, postsFile, drafts, work, review, pev, uuids, fn, hist>>

----------------------------------------------------------------------------
(* The `posts --eval` command.                                             *)

\* posts.filter((p) => !p.metadata.bangerScore), as positions in posts
RECURSIVE WithoutScoreFrom(_, _)
WithoutScoreFrom(posts, j) ==
  IF j > Len(posts) THEN <<>>
  ELSE (IF ScoreOrZero(posts[j]) = 0 THEN <<j>> ELSE <<>>) \o WithoutScoreFrom(posts, j + 1)

WithoutScore(posts) == WithoutScoreFrom(posts, 1)

PevStart ==
  /\ NoCommandRuns
  /\ Len(postsFile) > 0
  /\ WithoutScore(postsFile) # <<>>
  /\ pev' = [pc |-> "eval", posts |-> postsFile, todo |-> WithoutScore(postsFile),
             i |-> 1, evaluated |-> 0]
  /\ last' = NoStep
  /\ UNCHANGED <<files, stateFile, postsFile, drafts, work, review, uuids, fn, hist>>

\* One turn of the evaluation loop; after the last one the store is rewritten if
\* any evaluation succeeded.
PevEvaluate(o) ==
  /\ pev.pc = "eval"
  /\ LET j == pev.todo[pev.i]
         evaluation == EvalOf(o)
         posts == [pev.posts EXCEPT ![j] = WithEvaluation(pev.posts[j], evaluation)]
         evaluated == pev.evaluated + (IF evaluation.null THEN 0 ELSE 1)
     IN /\ last' = EvalStep("PevEvaluate", pev.posts[j].id, o)
        /\ IF pev.i < Len(pev.todo)
             THEN /\ pev' = [pev EXCEPT !.posts = posts, !.i = pev.i + 1,
                                        !.evaluated = evaluated]
                  /\ UNCHANGED postsFile
           ELSE /\ pev' = PevIdle
                /\ postsFile' = IF evaluated > 0 THEN posts ELSE postsFile
  /\ UNCHANGED <<files, stateFile, drafts, work, review, uuids, fn, hist>>

----------------------------------------------------------------------------
(* The `review` command. postsToReview holds positions in allPosts: the     *)
(* filtered list shares its post objects with allPosts.                     *)

MinScoreOptions == {{}, {0}, {50}}     \* --min-score: not given, 0, 50

\* allPosts.filter(new or keep), then the minimum score filter, as positions
RECURSIVE Candidates(_, _, _)
Candidates(posts, minScore, j) ==
  IF j > Len(posts) THEN <<>>
  ELSE (IF /\ posts[j].status \in {"new", "keep"}
           /\ \A m \in minScore : ScoreOrZero(posts[j]) >= m
          THEN <<j>> ELSE <<>>)
       \o Candidates(posts, minScore, j + 1)

\* Array.prototype.sort with (a, b) => (b.score || 0) - (a.score || 0): stable,
\* highest score first.
RECURSIVE InsertByScore(_, _, _)
InsertByScore(posts, sorted, j) ==
  IF sorted = <<>> THEN <<j>>
  ELSE IF ScoreOrZero(posts[Head(sorted)]) >= ScoreOrZero(posts[j])
    THEN <<Head(sorted)>> \o InsertByScore(posts, Tail(sorted), j)
  ELSE <<j>> \o sorted

RECURSIVE SortByScore(_, _)
SortByScore(posts, q) ==
  IF q = <<>> THEN <<>>
  ELSE InsertByScore(posts, SortByScore(posts, SubSeq(q, 1, Len(q) - 1)), q[Len(q)])

\* allPosts.findIndex((p) => p.id === post.id)
FindIndex(posts, id) ==
  LET hits == {j \in 1..Len(posts) : posts[j].id = id}
  IN IF hits = {} THEN 0 ELSE Min(hits)

\* The session starts: the store is read, the candidates filtered and sorted.
ReviewStart(minScore) ==
  /\ NoCommandRuns
  /\ LET allPosts == postsFile
         postsToReview == SortByScore(allPosts, Candidates(allPosts, minScore, 1))
     IN review' = IF Len(allPosts) = 0 \/ postsToReview = <<>>
                    THEN [ReviewIdle EXCEPT !.end = "nothing"]
                  ELSE [ReviewIdle EXCEPT !.pc = "prompt", !.allPosts = allPosts,
                                          !.postsToReview = postsToReview, !.i = 1]
  /\ last' = [NoStep EXCEPT !.op = "ReviewStart", !.minScore = minScore]
  /\ UNCHANGED <<files, stateFile, postsFile, drafts, work, pev, uuids, fn, hist>>

\* The session is over: the process ends and its memory is gone.
Ended(r, how) ==
  [r EXCEPT !.pc = "idle", !.end = how, !.allPosts = <<>>, !.postsToReview = <<>>,
            !.i = 0, !.prev = "none"]

\* i++ and the loop test: the next prompt, or "Review complete!".
NextItem(r) ==
  IF r.i + 1 > Len(r.postsToReview) THEN Ended(r, "complete")
  ELSE [r EXCEPT !.i = r.i + 1, !.pc = "prompt", !.prev = "none"]

CurrentPost == review.postsToReview[review.i]

\* The save that writes the list of candidates, in its sorted order.
SavedCandidates(r, written) ==
  [posts |-> IF written THEN [k \in 1..Len(r.postsToReview) |-> r.allPosts[r.postsToReview[k]]]
             ELSE postsFile,
   session |-> IF written THEN NextItem(r) ELSE Ended(r, "error")]

\* "Save immediately": allPosts[postIndex] = post; fs.writePosts(allPosts). With
\* written = FALSE writePosts raises and the outer catch exits.
Saved(r, written) ==
  LET post == r.allPosts[r.postsToReview[r.i]]
      postIndex == FindIndex(r.allPosts, post.id)
      allPosts == IF postIndex = 0 THEN r.allPosts
                  ELSE [r.allPosts EXCEPT ![postIndex] = post]
  IN [posts |-> IF postIndex # 0 /\ written THEN allPosts ELSE postsFile,
      session |-> IF postIndex # 0 /\ ~written THEN Ended(r, "error")
                  ELSE NextItem([r EXCEPT !.allPosts = allPosts])]

Decision(post, status) == [id |-> post.id, status |-> status]

\* The keep and reject decisions without the save.
ReviewDecideUnsaved(decision, written) ==
  /\ review.pc = "prompt"
  /\ decision \in {"keep", "rejected"}
  /\ review' = NextItem([review EXCEPT
                           !.allPosts[CurrentPost].status = decision,
                           !.decided = review.decided
                                        \cup {Decision(review.allPosts[CurrentPost], decision)}])
  /\ last' = NoStep
  /\ UNCHANGED <<files, stateFile, postsFile, drafts, work, pev, uuids, fn, hist>>

\* The operator answers keep or reject: the status is set and the store rewritten.
ReviewDecide(decision, written) ==
  /\ review.pc = "prompt"
  /\ decision \in {"keep", "rejected"}
  /\ LET r == [review EXCEPT
                 !.allPosts[CurrentPost].status = decision,
                 !.decided = review.decided
                              \cup {Decision(review.allPosts[CurrentPost], decision)}]
     IN /\ review' = Saved(r, written).session
        /\ postsFile' = Saved(r, written).posts
  /\ last' = NoStep
  /\ UNCHANGED <<files, stateFile, drafts, work, pev, uuids, fn, hist>>

\* The operator answers stage: the status is set and createDraft is awaited.
ReviewStage ==
  /\ review.pc = "prompt"
  /\ review' = [review EXCEPT !.allPosts[CurrentPost].status = "staged",
                              !.pc = "staging",
                              !.prev = review.allPosts[CurrentPost].status]
  /\ last' = NoStep
  /\ UNCHANGED <<files, stateFile, postsFile, drafts, work, pev, uuids, fn, hist>>

\* The drafts the service holds that were made for a post.
DraftsOf(id) == {d \in drafts : d.post = id}

\* The draft the service makes for a post: its id is one the service never gave before.
NewDraft(id) == [id |-> <<id, Cardinality(DraftsOf(id)) + 1>>, post |-> id]

\* createDraft returns a draft: its id is kept and the store rewritten.
ReviewDraftCreated(written) ==
  /\ review.pc = "staging"
  /\ Cardinality(DraftsOf(review.allPosts[CurrentPost].id)) < MaxDrafts
  /\ LET draft == NewDraft(review.allPosts[CurrentPost].id)
         r == [review EXCEPT
                 !.allPosts[CurrentPost].typefullyDraftId = {draft.id},
                 !.decided = review.decided
                              \cup {Decision(review.allPosts[CurrentPost], "staged")}]
     IN /\ drafts' = drafts \cup {draft}
        /\ review' = Saved(r, written).session
        /\ postsFile' = Saved(r, written).posts
  /\ last' = NoStep
  /\ UNCHANGED <<files, stateFile, work, pev, uuids, fn, hist>>

\* The staging failure handled without the revert of the status.
ReviewDraftFailedNoRevert ==
  /\ review.pc = "staging"
  /\ review' = NextItem([review EXCEPT
                           !.failed = review.failed
                                       \cup {Decision(review.allPosts[CurrentPost],
                                                      review.prev)}])
  /\ last' = NoStep
  /\ UNCHANGED <<files, stateFile, postsFile, drafts, work, pev, uuids, fn, hist>>

\* createDraft (or the service's constructor) raises: "Revert status on failure",
\* then `continue`.
ReviewDraftFailed ==
  /\ review.pc = "staging"
  /\ review' = NextItem([review EXCEPT
                           !.allPosts[CurrentPost].status = "new",
                           !.failed = review.failed
                                       \cup {Decision(review.allPosts[CurrentPost],
                                                      review.prev)}])
  /\ last' = NoStep
  /\ UNCHANGED <<files, stateFile, postsFile, drafts, work, pev, uuids, fn, hist>>

\* The operator answers quit.
ReviewQuit ==
  /\ review.pc = "prompt"
  /\ review' = Ended(review, "quit")
  /\ last' = NoStep
  /\ UNCHANGED <<files, stateFile, postsFile, drafts, work, pev, uuids, fn, hist>>

\* The process is killed while it waits for the operator or for createDraft.
ReviewAbort ==
  /\ review.pc \in {"prompt", "staging"}
  /\ review' = Ended(review, "abort")
  /\ last' = NoStep
  /\ UNCHANGED <<files, stateFile, postsFile, drafts, work, pev, uuids, fn, hist>>

----------------------------------------------------------------------------
(* Spec: the tracker. `work` runs, forced or not, over two documents that  *)
(* are edited between and during the runs.                                 *)

GoodItem == <<"{">> \o JMember("content", JString(GoodContent)) \o <<"}">>

TrackerGenResponses ==
  {<<"Sorry", ",", "no", "posts">>}
  \cup {<<"[">> \o JoinWith([j \in 1..n |-> GoodItem], ",") \o <<"]">> : n \in 1..MaxCand}

InitWith(fs, posts, f) ==
  /\ files = fs
  /\ stateFile = EmptyState
  /\ postsFile = posts
  /\ drafts = {}
  /\ work = WorkIdle
  /\ review = ReviewIdle
  /\ pev = PevIdle
  /\ uuids = Len(posts)
  /\ fn = f
  /\ hist = [ran |-> FALSE, mtimes |-> [d \in Docs |-> 0]]
  /\ last = NoStep

Init == InitWith([d \in Docs |-> [mtime |-> 1, kind |-> "text"]], <<>>, FnIdle)

Next ==
  \/ \E force \in BOOLEAN : WorkStart(force)
  \/ WorkCheck
  \/ WorkGenerateError
  \/ \E response \in TrackerGenResponses : WorkGenerate(response)
  \/ \E o \in TypicalOutcomes : WorkEvalAppend(o)
  \/ WorkSave
  \/ WorkExit
  \/ \E d \in Docs : EditFile(d)

Spec == Init /\ [][Next]_vars

\* A run without the force flag that has not yet saved its state.
UnforcedRun == work.pc \in {"check", "generate", "posts", "save"} /\ ~work.force

\* The saved state holds a record of the document, made with the modification time
\* the document has now.
RecordCurrent(d) ==
  /\ stateFile[d] # NoRecord
  /\ stateFile[d].modifiedAt = toISOString(files[d].mtime)

\* C1 as stated: after a work run, a document whose modification time has not changed
\* since that run gets no post appended by the next run without the force flag.
C1_OriginalIdempotent ==
  \A d \in Docs :
    (UnforcedRun /\ hist.ran /\ files[d].mtime = hist.mtimes[d]) => work.appended[d] = 0

\* C1 as amended: after a work run whose saved state holds a processed-file record for
\* a document, the next run without the force flag appends no post with that document
\* as source while its modification time is the one the record was made with.
C1_Idempotent ==
  \A d \in Docs :
    (UnforcedRun /\ RecordCurrent(d)) => work.appended[d] = 0

\* A second run has skipped a document the store holds posts of.
C1_Witness ==
  /\ UnforcedRun /\ work.pc = "save" /\ hist.ran
  /\ \E d \in Docs :
       /\ RecordCurrent(d) /\ work.skipped > 0 /\ work.appended[d] = 0
       /\ \E j \in 1..Len(postsFile) : postsFile[j].sourceFile = d

\* The record of the current file is of another modification time than the file's.
StaleRecord ==
  /\ work.state[CurrentFile] # NoRecord
  /\ work.state[CurrentFile].modifiedAt # toISOString(files[CurrentFile].mtime)

\* C2: a run without the force flag that comes to a document with a processed-file
\* record of another modification time than the document's does not skip it: it
\* reads it and calls the backend for it again.
C2_ReprocessOnChange ==
  [][(work.pc = "check" /\ work' # work /\ ~work.force /\ StaleRecord)
       => (work'.pc = "generate" /\ work'.idx = work.idx
           /\ work'.skipped = work.skipped)]_vars

\* A document with a stale record is being processed again.
C2_Witness == work.pc = "generate" /\ ~work.force /\ StaleRecord

----------------------------------------------------------------------------
(* SpecScore: generation, evaluation and storage. `work` runs over one      *)
(* document against every response of the backend, and `posts --eval` runs. *)

InitScore ==
  InitWith([d \in Docs |-> [mtime |-> 1,
                            kind |-> IF d = "input/a.txt" THEN "text" ELSE "absent"]],
           <<>>, FnIdle)

NextScore ==
  \/ \E force \in BOOLEAN : WorkStart(force)
  \/ WorkCheck
  \/ WorkGenerateError
  \/ \E response \in GenResponses : WorkGenerate(response)
  \/ \E o \in EvalOutcomes : WorkEvalAppend(o)
  \/ WorkSave
  \/ WorkExit
  \/ PevStart
  \/ \E o \in EvalOutcomes : PevEvaluate(o)

SpecScore == InitScore /\ [][NextScore]_vars

\* The post of the given id in a list of posts.
PostOf(posts, id) == posts[CHOOSE j \in 1..Len(posts) : posts[j].id = id]

\* The post the last evaluation step worked on, where that step left it.
EvaluatedPost ==
  IF last.op = "PevEvaluate" /\ pev.pc = "eval" THEN PostOf(pev.posts, last.id)
  ELSE PostOf(postsFile, last.id)

\* C8: every score in the store, and in the list `posts --eval` will write, lies in
\* 1..99; an evaluation attached by `work` or by `posts --eval` stores 1 for a backend
\* score below 1, 99 for one above 99, and a score in the range unchanged.
C8_ScoreInRange ==
  /\ \A j \in 1..Len(postsFile) : \A x \in postsFile[j].bangerScore : 1 <= x /\ x <= 99
  /\ \A j \in 1..Len(pev.posts) : \A x \in pev.posts[j].bangerScore : 1 <= x /\ x <= 99
  /\ last.eval = "ok" =>
       EvaluatedPost.bangerScore =
         {IF last.raw < 1 THEN 1 ELSE IF last.raw > 99 THEN 99 ELSE last.raw}

\* The store holds a score raised to 1, one lowered to 99 and one left as it was.
C8_Witness ==
  /\ last.eval = "ok" /\ (last.raw < 1 \/ last.raw > 99)
  /\ {1, 50, 99} \subseteq UNION {postsFile[j].bangerScore : j \in 1..Len(postsFile)}

\* C9: each turn of the post loop takes one candidate and appends exactly one post,
\* of status new, with the candidate's content and the file as source, whatever the
\* evaluation did; when the backend raised or the parser returned null, the post
\* has no score.
C9_EvalNeverFatal ==
  [][(work.pc = "posts" /\ work' # work)
       => /\ Len(postsFile') = Len(postsFile) + 1
          /\ SubSeq(postsFile', 1, Len(postsFile)) = postsFile
          /\ LET post == postsFile'[Len(postsFile')]
             IN /\ post.status = "new"
                /\ post.content = Head(work.cands)
                /\ post.sourceFile = CurrentFile
                /\ last'.eval \in {"null", "error"} => post.bangerScore = {}
          /\ work'.cands = Tail(work.cands) \/ (Len(work.cands) = 1 /\ work'.pc # "posts")
          /\ work'.pc = "posts" => work'.nposts = work.nposts]_vars

\* A post was stored although its evaluation failed, after another one.
C9_Witness ==
  /\ last.op = "WorkEvalAppend" /\ last.eval \in {"null", "error"}
  /\ Len(postsFile) >= 2
  /\ PostOf(postsFile, last.id).bangerScore = {}
  /\ PostOf(postsFile, last.id).status = "new"

\* content.includes('[Company]')
HasCompanyPlaceholder(content) ==
  \E i \in 1..(Len(content) - 2) : SubSeq(content, i, i + 2) = <<"[", "Company", "]">>

\* C10: no post whose content contains "[Company]" is in the store.
C10_NoPlaceholderStored ==
  \A j \in 1..Len(postsFile) : ~HasCompanyPlaceholder(postsFile[j].content)

----------------------------------------------------------------------------
(* SpecEval: parseBangerEval on every evaluation response.                 *)

InitEval ==
  \E c \in EvalCases :
    InitWith([d \in Docs |-> [mtime |-> 1, kind |-> "text"]], <<>>,
             [op |-> "parseBangerEval", arg |-> c, done |-> FALSE, out |-> NullEval])

ParseEval ==
  /\ fn.op = "parseBangerEval" /\ ~fn.done
  /\ fn' = [fn EXCEPT !.done = TRUE, !.out = parseBangerEval(RenderEval(fn.arg))]
  /\ UNCHANGED <<files, stateFile, postsFile, drafts, work, review, pev, uuids, hist, last>>

NextEval == ParseEval

SpecEval == InitEval /\ [][NextEval]_vars

\* The response holds an object with a numeric score, an object breakdown and a text
\* reasoning.
WellFormedEval(c) ==
  /\ c.obj
  /\ c.score \in {<<n>> : n \in Numerals}
  /\ c.breakdown \in {BreakdownObject, <<"{", "}">>}
  /\ c.reasoning \in {JString(<<"Strong", "hook">>), JString(<<>>)}

\* C7: for a response holding a well-formed object, parseBangerEval returns an
\* evaluation, not null, with that breakdown and reasoning and the score clamped.
C7_WellFormedParsed ==
  (fn.op = "parseBangerEval" /\ fn.done /\ WellFormedEval(fn.arg)) =>
    /\ ~fn.out.null
    /\ fn.out.score = Max({1, Min({99, NumeralValue(fn.arg.score[1])})})
    /\ fn.out.breakdown.t = "object"
    /\ JString(fn.out.reasoning) = fn.arg.reasoning

----------------------------------------------------------------------------
(* SpecReview: review sessions, one after the other, over a store that     *)
(* `work` has filled; createDraft may fail, a write of the store may fail,  *)
(* the session may be quit or killed.                                       *)

StoredOutcomes ==
  {BackendError}
  \cup {[error |-> FALSE, case |-> EvalCase(<<n>>, <<"[", "5", "]">>, JString(<<"Strong", "hook">>))]
         : n \in {"150"}}

\* The stores a `work` run over input/a.txt leaves: new posts, scored or not.
WorkStores ==
  UNION {{[j \in 1..n |-> WithEvaluation(NewPost(j, "input/a.txt", GoodContent), EvalOf(os[j]))]
           : os \in [1..n -> StoredOutcomes]} : n \in 1..MaxPosts}

InitReview ==
  \E posts \in WorkStores :
    InitWith([d \in Docs |-> [mtime |-> 1, kind |-> "text"]], posts, FnIdle)

NextReview ==
  \/ \E minScore \in MinScoreOptions : ReviewStart(minScore)
  \/ \E decision \in {"keep", "rejected"}, written \in BOOLEAN : ReviewDecide(decision, written)
  \/ ReviewStage
  \/ \E written \in BOOLEAN : ReviewDraftCreated(written)
  \/ ReviewDraftFailed
  \/ ReviewQuit
  \/ ReviewAbort

SpecReview == InitReview /\ [][NextReview]_vars

\* The status a post has in the store.
StoredStatus(id) == PostOf(postsFile, id).status

\* C3 as stated: a post whose staging failed in the session keeps the status it had
\* before the decision, in the session's list of posts and in the store, and so is
\* still a candidate of a later session.
C3_FailedStageKeepsStatus ==
  \A f \in review.failed :
    /\ StoredStatus(f.id) = f.status
    /\ StoredStatus(f.id) \in {"new", "keep"}
    /\ review.pc # "idle" => PostOf(review.allPosts, f.id).status = f.status

\* C4 as stated: over any sequence of sessions, however they end (complete, quit,
\* killed, storage error), createDraft has succeeded at most once for a post: the
\* service holds at most one draft of it.
C4_DraftAtMostOnce ==
  \A j \in 1..Len(postsFile) : Cardinality(DraftsOf(postsFile[j].id)) <= 1

\* C5: the store holds a post as staged only with the id of a draft that createDraft
\* made for that post; a post whose createDraft failed is never stored as staged.
C5_StagedOnlyAfterDraft ==
  /\ \A j \in 1..Len(postsFile) :
       postsFile[j].status = "staged" =>
         \E d \in DraftsOf(postsFile[j].id) : postsFile[j].typefullyDraftId = {d.id}
  /\ \A f \in review.failed : StoredStatus(f.id) # "staged"

\* The place a post has among the candidates of the session.
Place(id) ==
  CHOOSE k \in 1..Len(review.postsToReview) :
    review.allPosts[review.postsToReview[k]].id = id

\* A session in which one staging failed, then a later post was staged and stored.
C5_Witness ==
  /\ review.pc = "prompt"
  /\ \E f \in review.failed, c \in review.decided :
       /\ c.status = "staged" /\ Place(f.id) < Place(c.id)
       /\ StoredStatus(c.id) = "staged"
       /\ PostOf(postsFile, c.id).typefullyDraftId # {}

\* The decisions of the session are in the store.
Persisted ==
  \A c \in review.decided :
    /\ StoredStatus(c.id) = c.status
    /\ c.status = "staged" => PostOf(postsFile, c.id).typefullyDraftId # {}

\* C6: when the next candidate is presented, and when the session ends other than by a
\* storage error, every decision made in the session is in the store; the step that
\* quits or kills the session leaves the store as it is.
C6_DecisionsPersisted ==
  [][/\ review'.end # "error" => Persisted'
     /\ (review.pc # "idle" /\ review'.end \in {"quit", "abort"}) => postsFile' = postsFile]_vars

\* A session quit after a stage and a keep or a reject, in any order.
C6_Witness ==
  /\ review.end = "quit"
  /\ Cardinality(review.decided) = 2
  /\ "staged" \in {c.status : c \in review.decided}
  /\ Persisted

----------------------------------------------------------------------------
(* SpecStore: posts.jsonl as text. writePosts and appendPost write the      *)
(* lines, readPosts reads them back.                                        *)

NumeralOf(n) == CHOOSE l \in Numerals : NumeralValue(l) = n

\* The escapes of the quotes alone: a line feed is written as it is.
EscapeQuotesOnly(s) == [j \in 1..Len(s) |-> IF s[j] = Q THEN EscQ ELSE s[j]]

\* The escapes JSON.stringify writes inside a string literal.
Escape(s) ==
  [j \in 1..Len(s) |-> IF s[j] = Q THEN EscQ ELSE IF s[j] = NL THEN EscNL ELSE s[j]]

RECURSIVE Stringify(_)
RECURSIVE StringifyMembers(_, _)
RECURSIVE StringifyElements(_)

\* The members of an object; a member whose value is undefined is left out.
StringifyMembers(kv, first) ==
  IF kv = <<>> THEN <<>>
  ELSE IF Head(kv).v.t = "undefined" THEN StringifyMembers(Tail(kv), first)
  ELSE (IF first THEN <<>> ELSE <<",">>)
       \o <<Q>> \o Escape(Head(kv).k) \o <<Q, ":">> \o Stringify(Head(kv).v)
       \o StringifyMembers(Tail(kv), FALSE)

StringifyElements(el) ==
  IF el = <<>> THEN <<>>
  ELSE Stringify(Head(el)) \o (IF Len(el) > 1 THEN <<",">> ELSE <<>>)
       \o StringifyElements(Tail(el))

\* JSON.stringify(value)
Stringify(v) ==
  CASE v.t = "number" -> <<NumeralOf(v.n)>>
    [] v.t = "string" -> <<Q>> \o Escape(v.s) \o <<Q>>
    [] v.t = "object" -> <<"{">> \o StringifyMembers(v.kv, TRUE) \o <<"}">>
    [] v.t = "array" -> <<"[">> \o StringifyElements(v.el) \o <<"]">>
    [] v.t = "undefined" -> <<"null">>
    [] OTHER -> <<v.t>>

\* content.trim(): the line feeds at both ends go.
RECURSIVE Trim(_)
Trim(text) ==
  IF text = <<>> THEN <<>>
  ELSE IF Head(text) = NL THEN Trim(Tail(text))
  ELSE IF text[Len(text)] = NL THEN Trim(SubSeq(text, 1, Len(text) - 1))
  ELSE text

\* text.split('\n')
RECURSIVE Split(_)
Split(text) ==
  LET feeds == {j \in 1..Len(text) : text[j] = NL}
  IN IF feeds = {} THEN <<text>>
     ELSE <<SubSeq(text, 1, Min(feeds) - 1)>> \o Split(SubSeq(text, Min(feeds) + 1, Len(text)))

\* lines.filter((line) => line.length > 0)
RECURSIVE NonEmptyLines(_)
NonEmptyLines(lines) ==
  IF lines = <<>> THEN <<>>
  ELSE (IF Head(lines) # <<>> THEN <<Head(lines)>> ELSE <<>>) \o NonEmptyLines(Tail(lines))

\* posts.jsonl: whether it exists, and its text.
NoStoreFile == [exists |-> FALSE, text |-> <<>>]

\* readPosts: no file gives the empty list; a line that does not parse raises.
readPosts(file) ==
  IF ~file.exists THEN [ok |-> TRUE, posts |-> <<>>]
  ELSE LET lines == NonEmptyLines(Split(Trim(file.text)))
           parsed == [j \in 1..Len(lines) |-> JSONParse(lines[j])]
       IN IF \E j \in 1..Len(lines) : ~parsed[j].ok THEN [ok |-> FALSE, posts |-> <<>>]
          ELSE [ok |-> TRUE, posts |-> [j \in 1..Len(lines) |-> parsed[j].v]]

\* posts.map((post) => JSON.stringify(post)).join('\n') + '\n'
writePosts(posts) ==
  [exists |-> TRUE,
   text |-> JoinWith([j \in 1..Len(posts) |-> Stringify(posts[j])], NL) \o <<NL>>]

\* appendFileSync(postsPath, JSON.stringify(post) + '\n')
appendPost(file, post) ==
  [exists |-> TRUE, text |-> file.text \o Stringify(post) \o <<NL>>]

JMemberV(key, v) == [k |-> <<key>>, v |-> v]

\* The post object createPost makes, with what work and review add to its metadata.
PostObject(id, content, status, score, draft) ==
  ObjectV(<<JMemberV("id", StringV(<<id>>)),
            JMemberV("sourceFile", StringV(<<"input/a.txt">>)),
            JMemberV("content", StringV(content)),
            JMemberV("metadata",
                     ObjectV(<<JMemberV("model", StringV(<<"llama3.1">>))>>
                             \o (IF score = {} THEN <<>>
                                 ELSE <<JMemberV("bangerScore", NumberV(Max(score)))>>)
                             \o (IF draft = {} THEN <<>>
                                 ELSE <<JMemberV("typefullyDraftId", StringV(<<"d1">>))>>))),
            JMemberV("status", StringV(<<status>>))>>)

StoreContents ==
  {<<"Ship", "it">>, <<"He", "said", Q, "no", Q>>, <<"one", NL, "two">>,
   <<"{", "a", ":", "[", "]", "}", ",">>, <<>>}

StorePosts ==
  {PostObject("p1", c, "new", {}, {}) : c \in StoreContents}
  \cup {PostObject("p2", <<"Ship", "it">>, "staged", {75}, {"d1"}),
        PostObject("p3", <<"one", NL, "two">>, "keep", {1}, {})}

StoreLists == UNION {[1..n -> StorePosts] : n \in 0..MaxCand}

StoreIdle(op, file, written) ==
  [op |-> op, arg |-> written, done |-> FALSE, out |-> NullEval, file |-> file]

InitStore ==
  InitWith([d \in Docs |-> [mtime |-> 1, kind |-> "text"]], <<>>,
           StoreIdle("none", NoStoreFile, <<>>))

\* fs.writePosts(list)
StoreWrite(list) ==
  /\ fn' = StoreIdle("writePosts", writePosts(list), list)
  /\ UNCHANGED <<files, stateFile, postsFile, drafts, work, review, pev, uuids, hist, last>>

\* fs.appendPost(post)
StoreAppend(post) ==
  /\ Len(fn.arg) < MaxPosts
  /\ fn' = StoreIdle("appendPost", appendPost(fn.file, post), Append(fn.arg, post))
  /\ UNCHANGED <<files, stateFile, postsFile, drafts, work, review, pev, uuids, hist, last>>

\* fs.readPosts()
StoreRead ==
  /\ ~fn.done
  /\ fn' = [fn EXCEPT !.done = TRUE, !.out = readPosts(fn.file)]
  /\ UNCHANGED <<files, stateFile, postsFile, drafts, work, review, pev, uuids, hist, last>>

NextStore ==
  \/ \E list \in StoreLists : StoreWrite(list)
  \/ \E post \in StorePosts : StoreAppend(post)
  \/ StoreRead

SpecStore == InitStore /\ [][NextStore]_vars

\* C11: readPosts after writePosts(list) returns the posts of list, equal in every
\* field and in the same order (the empty list too); after appends it returns the posts
\* in the order they were appended.
C11_StoreRoundTrip ==
  fn.done => (fn.out.ok /\ fn.out.posts = fn.arg)

\* A list with a quote and a line feed in its posts' contents was written, a post was
\* appended to it, and the store was read.
C11_Witness ==
  /\ fn.done /\ fn.file.exists /\ Len(fn.arg) = MaxPosts
  /\ \E j, k \in 1..Len(fn.out.posts) :
       /\ j < k
       /\ \E x \in 1..Len(Get(fn.out.posts[j], "content").s) :
            Get(fn.out.posts[j], "content").s[x] = NL
       /\ \E x \in 1..Len(Get(fn.out.posts[k], "content").s) :
            Get(fn.out.posts[k], "content").s[x] = Q

----------------------------------------------------------------------------
(* SpecFault: `work` runs in which the store or the state file may fail,    *)
(* and in which the process may be killed.                                  *)

StorageStep(op) == [NoStep EXCEPT !.op = op]

\* process.exit(1) in the outer catch of the command.
FailureExit == [WorkIdle EXCEPT !.exit = "failure"]

\* fs.loadState() raises (the state file cannot be read or parsed): the outer catch.
WorkLoadError ==
  /\ NoCommandRuns
  /\ findInputFiles # <<>>
  /\ work' = FailureExit
  /\ last' = StorageStep("loadState raised")
  /\ UNCHANGED <<files, stateFile, postsFile, drafts, review, pev, uuids, fn, hist>>

\* fs.appendPost(post) raises inside the post loop: the per-file catch counts an error
\* and the loop goes on with the next file. The post that was made is dropped, and its
\* id with it.
WorkAppendError ==
  /\ work.pc = "posts"
  /\ work' = NextFile([work EXCEPT !.errors = work.errors + 1])
  /\ last' = StorageStep("appendPost raised")
  /\ UNCHANGED <<files, stateFile, postsFile, drafts, review, pev, uuids, fn, hist>>

\* fs.saveState(state) raises after the loop: the outer catch.
WorkSaveError ==
  /\ work.pc = "save"
  /\ work' = FailureExit
  /\ last' = StorageStep("saveState raised")
  /\ UNCHANGED <<files, stateFile, postsFile, drafts, review, pev, uuids, fn, hist>>

\* The process is killed while it waits for the backend.
WorkKill ==
  /\ work.pc \in {"generate", "posts"}
  /\ work' = [WorkIdle EXCEPT !.exit = "killed"]
  /\ last' = NoStep
  /\ UNCHANGED <<files, stateFile, postsFile, drafts, review, pev, uuids, fn, hist>>

NextFault ==
  \/ \E force \in BOOLEAN : WorkStart(force)
  \/ WorkLoadError
  \/ WorkCheck
  \/ WorkGenerateError
  \/ \E response \in TrackerGenResponses : WorkGenerate(response)
  \/ \E o \in TypicalOutcomes : WorkEvalAppend(o)
  \/ WorkAppendError
  \/ WorkSave
  \/ WorkSaveError
  \/ WorkKill
  \/ WorkExit
  \/ \E d \in Docs : EditFile(d)

SpecFault == Init /\ [][NextFault]_vars

\* C12 as stated: a step in which a read or write of the post store or of the state
\* file fails ends the command with a failure exit; the run does not go on to another
\* document and the failure is not counted as a per-document error.
C12_StorageErrorFatal ==
  [][last'.op \in {"loadState raised", "appendPost raised", "saveState raised"}
       => (work'.pc = "idle" /\ work'.exit = "failure")]_vars

\* C13 as stated: while a run processes a document, or is about to, the state file
\* holds the record of every document the run has completed.
C13_IncrementalPersist ==
  work.pc \in {"check", "generate", "posts"} =>
    \A d \in Docs : work.state[d] # NoRecord => stateFile[d] = work.state[d]

----------------------------------------------------------------------------
(* SpecProcessed: isFileProcessed on every path, state and file system.     *)

Records(d) ==
  {NoRecord} \cup {[path |-> d, modifiedAt |-> toISOString(t), postsGenerated |-> 1]
                    : t \in 1..MaxTime}

TrackerStates == {st \in [Docs -> UNION {Records(d) : d \in Docs}] : \A d \in Docs : st[d] \in Records(d)}

InitProcessed ==
  \E fs \in [Docs -> [mtime : 1..MaxTime, kind : {"text", "absent"}]],
     st \in TrackerStates, d \in Docs :
    InitWith(fs, <<>>, [op |-> "isFileProcessed", arg |-> [filePath |-> d, state |-> st],
                        done |-> FALSE, out |-> FALSE])

ProcessedCheck ==
  /\ fn.op = "isFileProcessed" /\ ~fn.done
  /\ fn' = [fn EXCEPT !.done = TRUE, !.out = isFileProcessed(fn.arg.filePath, fn.arg.state)]
  /\ UNCHANGED <<files, stateFile, postsFile, drafts, work, review, pev, uuids, hist, last>>

NextProcessed == ProcessedCheck

SpecProcessed == InitProcessed /\ [][NextProcessed]_vars

\* C14: isFileProcessed returns true if and only if the state holds a record of the
\* path whose modifiedAt equals the ISO form of the path's current modification time; it
\* returns false for a path that cannot be stat'ed; the call leaves the state, and the
\* file system, as they were.
C14_ProcessedIff ==
  [][(fn.op = "isFileProcessed" /\ ~fn.done /\ fn'.done) =>
       LET d == fn.arg.filePath
           st == fn.arg.state
       IN /\ fn'.out = (/\ st[d] # NoRecord
                        /\ files[d].kind # "absent"
                        /\ st[d].modifiedAt = toISOString(files[d].mtime))
          /\ files[d].kind = "absent" => fn'.out = FALSE
          /\ fn'.arg = fn.arg /\ files' = files /\ stateFile' = stateFile]_vars

\* The call has returned false for a path that is gone and whose record is of the time
\* the path last had.
C14_Witness ==
  /\ fn.op = "isFileProcessed" /\ fn.done /\ ~fn.out
  /\ files[fn.arg.filePath].kind = "absent"
  /\ fn.arg.state[fn.arg.filePath] # NoRecord
  /\ fn.arg.state[fn.arg.filePath].modifiedAt = toISOString(files[fn.arg.filePath].mtime)

----------------------------------------------------------------------------
(* The force flag, under Spec.                                              *)

\* C15: in a run with the force flag no step counts a skip; a step changes the record
\* of no document but the one it has just processed, and deletes none; the save leaves
\* a record for every path that had one, and leaves the record of every document the
\* run appended no post for as it was.
C15_ForceKeepsRecords ==
  [][(work.force /\ work.pc # "idle" /\ work'.pc # "idle") =>
       /\ work'.skipped = 0
       /\ (work.pc = "check" /\ work' # work) => work'.pc = "generate"
       /\ \A d \in Docs :
            /\ work.state[d] # NoRecord => work'.state[d] # NoRecord
            /\ work'.state[d] # work.state[d] =>
                 (d = CurrentFile /\ work'.processed = work.processed + 1)
            /\ stateFile[d] # NoRecord => stateFile'[d] # NoRecord
            /\ work.appended[d] = 0 => stateFile'[d] = stateFile[d]]_vars

\* A forced run, after an earlier run, has saved its state: it processed one document
\* whose record was current, and failed on another whose record is still there.
C15_Witness ==
  /\ work.force /\ work.pc = "summary" /\ hist.ran /\ work.skipped = 0
  /\ \E d, e \in Docs :
       /\ work.appended[d] > 0 /\ stateFile[d] # NoRecord
       /\ files[d].mtime = hist.mtimes[d]
       /\ work.appended[e] = 0 /\ stateFile[e] # NoRecord

----------------------------------------------------------------------------
(* The candidates of a review session, under SpecReview.                    *)

\* The post has a score, and it is at least the minimum given (if one is given).
ScoreAtLeast(post, minScore) ==
  \A m \in minScore : post.bangerScore # {} /\ Max(post.bangerScore) >= m

\* C16 as stated: the session that has just loaded the store presents exactly the posts
\* that are new or keep and, with a minimum score given, have a score of at least that
\* minimum; none twice; in non-increasing score order, the posts without a score after
\* all those with one.
C16_PresentsCandidates ==
  last.op = "ReviewStart" =>
    LET q == review.postsToReview
    IN /\ {q[k] : k \in 1..Len(q)} =
            {j \in 1..Len(postsFile) :
               /\ postsFile[j].status \in {"new", "keep"}
               /\ ScoreAtLeast(postsFile[j], last.minScore)}
       /\ \A k, l \in 1..Len(q) :
            k < l => /\ q[k] # q[l]
                     /\ ScoreOrZero(postsFile[q[k]]) >= ScoreOrZero(postsFile[q[l]])
                     /\ postsFile[q[k]].bangerScore = {} => postsFile[q[l]].bangerScore = {}

----------------------------------------------------------------------------
(* The lifecycle of a post's status, under SpecReview.                      *)

\* The changes of a stored status the lifecycle allows.
LifecycleChanges ==
  {<<"new", "keep">>, <<"new", "staged">>, <<"keep", "staged">>,
   <<"new", "rejected">>, <<"keep", "rejected">>}

\* C17 as stated: no step stores the status published; a post stored as rejected or
\* staged keeps that status and is not the post a session presents; every change of a
\* stored status is new to keep, new or keep to staged, or new or keep to rejected.
C17_Lifecycle ==
  [][/\ \A j \in 1..Len(postsFile) :
          /\ postsFile'[j].status # "published"
          /\ postsFile[j].status \in {"rejected", "staged"} =>
               postsFile'[j].status = postsFile[j].status
          /\ postsFile'[j].status # postsFile[j].status =>
               <<postsFile[j].status, postsFile'[j].status>> \in LifecycleChanges
     /\ review'.pc = "prompt" =>
          StoredStatus(review.allPosts[CurrentPost].id)' \in {"new", "keep"}]_vars

----------------------------------------------------------------------------
(* SpecAll: `work` runs over one document, review sessions and              *)
(* `posts --eval` runs, one command at a time, from an empty store.         *)

AllOutcomes == {BackendError} \cup TypicalOutcomes

NextAll ==
  \/ \E force \in BOOLEAN : WorkStart(force)
  \/ WorkCheck
  \/ WorkGenerateError
  \/ \E response \in TrackerGenResponses : WorkGenerate(response)
  \/ \E o \in AllOutcomes : WorkEvalAppend(o)
  \/ WorkSave
  \/ WorkExit
  \/ PevStart
  \/ \E o \in AllOutcomes : PevEvaluate(o)
  \/ \E minScore \in {{}, {50}} : ReviewStart(minScore)
  \/ \E decision \in {"keep", "rejected"} : ReviewDecide(decision, TRUE)
  \/ ReviewStage
  \/ ReviewDraftCreated(TRUE)
  \/ ReviewDraftFailed
  \/ ReviewQuit

SpecAll == InitScore /\ [][NextAll]_vars

\* C18: no step takes a post out of the store or moves one: the store after the step
\* begins with the ids of the store before it, in the same order, and what is new
\* comes after them.
C18_StoreGrowsAtTail ==
  [][/\ Len(postsFile') >= Len(postsFile)
     /\ \A j \in 1..Len(postsFile) : postsFile'[j].id = postsFile[j].id]_vars

\* The store is full after two runs of work, a review session has stored a decision on
\* a post that is not the first of its candidates to be stored, and posts --eval has
\* just rewritten the store with a score for a post.
C18_Witness ==
  /\ Len(postsFile) = MaxPosts
  /\ postsFile[1].sourceFile = "input/a.txt" /\ hist.ran
  /\ postsFile[1].status = "new" /\ postsFile[1].bangerScore # {}
  /\ postsFile[2].status \in {"keep", "staged", "rejected"}
  /\ last.op = "PevEvaluate" /\ last.eval = "ok" /\ pev.pc = "idle"

----------------------------------------------------------------------------
(* SpecSelect: the strategy selector. Its code is not part of the sources   *)
(* at hand; it is modelled from its contract. A draw of the weighted        *)
(* sampling is a choice among the strategies whose weight is not zero.      *)

Strategy(id, category, requires, threadFriendly) ==
  [id |-> id, category |-> category, requires |-> requires, threadFriendly |-> threadFriendly]

\* The catalog: an ordered list; `requires` is the applicability predicate, the traits
\* the profile must have (none: applies to anything).
FullCatalog ==
  <<Strategy("A", "personal", {"hasPersonalStories"}, FALSE),
    Strategy("B", "personal", {}, TRUE),
    Strategy("C", "educational", {"hasActionableAdvice"}, FALSE),
    Strategy("D", "educational", {}, FALSE),
    Strategy("E", "opinion", {"hasStrongOpinions"}, TRUE)>>

RECURSIVE SubCatalog(_, _)
SubCatalog(catalog, ids) ==
  IF catalog = <<>> THEN <<>>
  ELSE (IF Head(catalog).id \in ids THEN <<Head(catalog)>> ELSE <<>>)
       \o SubCatalog(Tail(catalog), ids)

Catalogs == {SubCatalog(FullCatalog, ids) : ids \in SUBSET {"A", "B", "C", "D", "E"}}

Profiles == SUBSET {"hasPersonalStories", "hasActionableAdvice", "hasStrongOpinions"}

\* diversityWeight in halves: 0, 0.5, 1
WeightScale == 2
DiversityWeights == 0..WeightScale

Applicable(strategy, profile) == strategy.requires \subseteq profile

\* The applicable strategies, chosen or not.
RemainingWithChosen(arg, chosen) ==
  {j \in 1..Len(arg.catalog) : Applicable(arg.catalog[j], arg.profile)}

\* The applicable strategies not yet chosen, as positions in the catalog.
Remaining(arg, chosen) ==
  {j \in 1..Len(arg.catalog) :
     /\ Applicable(arg.catalog[j], arg.profile)
     /\ \A k \in 1..Len(chosen) : chosen[k].id # arg.catalog[j].id}

SameCategory(strategy, chosen) ==
  Cardinality({k \in 1..Len(chosen) : chosen[k].category = strategy.category})

\* The weight of every candidate the same, whatever was chosen.
WeightFlat(strategy, chosen, diversityWeight) == WeightScale

\* The weight of a candidate, reduced by diversityWeight for every strategy of its
\* category already chosen; at diversityWeight 1 one such strategy brings it to zero.
Weight(strategy, chosen, diversityWeight) ==
  Max({0, WeightScale - diversityWeight * SameCategory(strategy, chosen)})

\* The strategies a draw may give: those of weight above zero; when every weight is
\* zero, all that remain. preferThreadFriendly orders the candidates before they are
\* weighted and excludes none: it changes the odds of a draw, not what may be drawn.
Drawable(arg, chosen) ==
  LET rest == Remaining(arg, chosen)
      weighted == {j \in rest : Weight(arg.catalog[j], chosen, arg.diversityWeight) > 0}
  IN IF weighted # {} THEN weighted ELSE rest

InitSelect ==
  \E catalog \in Catalogs, profile \in Profiles, targetCount \in 0..MaxTarget,
     diversityWeight \in DiversityWeights, preferThreadFriendly \in BOOLEAN :
    InitWith([d \in Docs |-> [mtime |-> 1, kind |-> "text"]], <<>>,
             [op |-> "selectStrategies",
              arg |-> [catalog |-> catalog, profile |-> profile, targetCount |-> targetCount,
                       diversityWeight |-> diversityWeight,
                       preferThreadFriendly |-> preferThreadFriendly],
              done |-> FALSE, out |-> <<>>])

\* One draw of the sampling without replacement.
SelectDraw ==
  /\ fn.op = "selectStrategies" /\ ~fn.done
  /\ Len(fn.out) < fn.arg.targetCount
  /\ \E j \in Drawable(fn.arg, fn.out) : fn' = [fn EXCEPT !.out = Append(fn.out, fn.arg.catalog[j])]
  /\ UNCHANGED <<files, stateFile, postsFile, drafts, work, review, pev, uuids, hist, last>>

\* The selection is returned: targetCount strategies are chosen, or none remains.
SelectReturn ==
  /\ fn.op = "selectStrategies" /\ ~fn.done
  /\ Len(fn.out) >= fn.arg.targetCount \/ Remaining(fn.arg, fn.out) = {}
  /\ fn' = [fn EXCEPT !.done = TRUE]
  /\ UNCHANGED <<files, stateFile, postsFile, drafts, work, review, pev, uuids, hist, last>>

NextSelect == SelectDraw \/ SelectReturn

SpecSelect == InitSelect /\ [][NextSelect]_vars

ApplicableSet(arg) == {j \in 1..Len(arg.catalog) : Applicable(arg.catalog[j], arg.profile)}

\* C19: with some strategy applicable, the selection holds at most targetCount
\* strategies, none twice, each one applicable; returned, it holds targetCount of them,
\* or all the applicable ones when they are fewer.
C19_SelectionBounded ==
  (fn.op = "selectStrategies" /\ ApplicableSet(fn.arg) # {}) =>
    /\ Len(fn.out) <= fn.arg.targetCount
    /\ \A j, k \in 1..Len(fn.out) : j # k => fn.out[j].id # fn.out[k].id
    /\ \A j \in 1..Len(fn.out) :
         /\ Applicable(fn.out[j], fn.arg.profile)
         /\ \E k \in 1..Len(fn.arg.catalog) : fn.arg.catalog[k] = fn.out[j]
    /\ fn.done => Len(fn.out) = Min({fn.arg.targetCount, Cardinality(ApplicableSet(fn.arg))})

\* A selection returned with all the applicable strategies, fewer than targetCount, and
\* some strategy of the catalog not applicable.
C19_Witness ==
  /\ fn.op = "selectStrategies" /\ fn.done
  /\ Len(fn.out) >= 2 /\ Len(fn.out) < fn.arg.targetCount
  /\ Len(fn.arg.catalog) > Len(fn.out)

ApplicableCategories(arg) == {arg.catalog[j].category : j \in ApplicableSet(arg)}

\* C20: with diversityWeight 1 and at least targetCount categories holding an applicable
\* strategy, no two of the strategies selected are of the same category.
C20_CategoriesSpread ==
  (/\ fn.op = "selectStrategies"
   /\ fn.arg.diversityWeight = WeightScale
   /\ Cardinality(ApplicableCategories(fn.arg)) >= fn.arg.targetCount) =>
    \A j, k \in 1..Len(fn.out) : j # k => fn.out[j].category # fn.out[k].category

\* The scenario of the contract: A and B personal, C educational, all applicable,
\* targetCount 2, diversityWeight 1; returned: C and one of A, B.
C20_Witness ==
  /\ fn.op = "selectStrategies" /\ fn.done
  /\ fn.arg.diversityWeight = WeightScale /\ fn.arg.targetCount = 2
  /\ [j \in 1..Len(fn.arg.catalog) |-> fn.arg.catalog[j].id] = <<"A", "B", "C">>
  /\ Cardinality(ApplicableSet(fn.arg)) = 3
  /\ {fn.out[j].id : j \in 1..Len(fn.out)} \in {{"A", "C"}, {"B", "C"}}

----------------------------------------------------------------------------
(* The minimum score filter of `posts` and `review`, as a function of the   *)
(* posts read and of the --min-score option.                                *)

FilterScores == {{}, {0}, {40}, {90}}     \* no score, 0, 40, 90

ScoredPost(id, score) ==
  [NewPost(id, DirOrder[1], GoodContent) EXCEPT !.bangerScore = score]

FilterLists ==
  UNION {{[j \in 1..n |-> ScoredPost(j, scores[j])] : scores \in [1..n -> FilterScores]}
           : n \in 0..MaxPosts}

\* posts.filter((p) => (p.metadata.bangerScore || 0) >= minScore), if the option is given
MinScoreFilter(posts, minScore) ==
  LET Keep(p) == \A m \in minScore : ScoreOrZero(p) >= m
  IN SelectSeq(posts, Keep)

InitFilter ==
  \E posts \in FilterLists, minScore \in MinScoreOptions :
    InitWith([d \in Docs |-> [mtime |-> 1, kind |-> "text"]], posts,
             [op |-> "none", arg |-> [posts |-> posts, minScore |-> minScore],
              done |-> FALSE, out |-> <<>>])

\* `posts --min-score m` filters the posts it has read.
PostsFilter ==
  /\ ~fn.done
  /\ fn' = [fn EXCEPT !.op = "posts", !.done = TRUE,
                      !.out = MinScoreFilter(fn.arg.posts, fn.arg.minScore)]
  /\ UNCHANGED <<files, stateFile, postsFile, drafts, work, review, pev, uuids, hist, last>>

\* `review --min-score m` filters the new and keep posts it has read.
ReviewFilter ==
  /\ ~fn.done
  /\ LET kept == Candidates(fn.arg.posts, fn.arg.minScore, 1)
     IN fn' = [fn EXCEPT !.op = "review", !.done = TRUE,
                         !.out = [k \in 1..Len(kept) |-> fn.arg.posts[kept[k]]]]
  /\ UNCHANGED <<files, stateFile, postsFile, drafts, work, review, pev, uuids, hist, last>>

NextFilter == PostsFilter \/ ReviewFilter

SpecFilter == InitFilter /\ [][NextFilter]_vars

\* C21: with a minimum score given, the filter of `posts` and of `review` yields exactly
\* the posts that have a score and whose score is at least the minimum; a post with no
\* score is excluded whatever the minimum is.
C21_MinScoreExcludesUnscored ==
  (fn.done /\ fn.arg.minScore # {}) =>
    LET Has(p) == p.bangerScore # {} /\ \A m \in fn.arg.minScore : Max(p.bangerScore) >= m
    IN fn.out = SelectSeq(fn.arg.posts, Has)

----------------------------------------------------------------------------
(* SpecDocs: `work` runs over documents that may be empty, unreadable or    *)
(* removed, with a setup, a store and a state file that may fail.           *)

\* ollama.ensureAvailable() or one of the fs.loadPrompt() calls raises.
SetupCauses == {"ensureAvailable raised", "loadPrompt raised"}

\* The setup failure handled after a fresh state has been saved.
WorkSetupErrorAfterSave(cause) ==
  /\ NoCommandRuns
  /\ cause \in SetupCauses
  /\ work' = FailureExit
  /\ stateFile' = EmptyState
  /\ last' = StorageStep(cause)
  /\ UNCHANGED <<files, postsFile, drafts, review, pev, uuids, fn, hist>>

\* The setup raises before the input files are listed and the state is loaded: the
\* outer catch prints the message and exits with code 1.
WorkSetupError(cause) ==
  /\ NoCommandRuns
  /\ cause \in SetupCauses
  /\ work' = FailureExit
  /\ last' = StorageStep(cause)
  /\ UNCHANGED <<files, stateFile, postsFile, drafts, review, pev, uuids, fn, hist>>

\* Someone removes a document.
RemoveFile(d) ==
  /\ files[d].kind # "absent"
  /\ files' = [files EXCEPT ![d].kind = "absent"]
  /\ last' = NoStep
  /\ UNCHANGED <<stateFile, postsFile, drafts, work, review, pev, uuids, fn, hist>>

FileKinds == {"text", "empty", "unreadable"}

InitDocs ==
  \E kinds \in [Docs -> FileKinds] :
    InitWith([d \in Docs |-> [mtime |-> 1, kind |-> kinds[d]]], <<>>, FnIdle)

NextDocs ==
  \/ \E cause \in SetupCauses : WorkSetupError(cause)
  \/ \E force \in BOOLEAN : WorkStart(force)
  \/ WorkCheck
  \/ WorkGenerateError
  \/ \E response \in TrackerGenResponses : WorkGenerate(response)
  \/ \E o \in TypicalOutcomes : WorkEvalAppend(o)
  \/ WorkAppendError
  \/ WorkSave
  \/ WorkExit
  \/ \E d \in Docs : EditFile(d)
  \/ \E d \in Docs : RemoveFile(d)

SpecDocs == InitDocs /\ [][NextDocs]_vars

\* C22: a work run whose backend availability check fails, or one of whose prompt
\* templates is missing, ends with a failure exit in that step, and the step leaves the
\* post store and the processed-file state as they were.
C22_SetupAbortTouchesNothing ==
  [][last'.op \in SetupCauses
       => /\ work'.pc = "idle" /\ work'.exit = "failure"
          /\ postsFile' = postsFile
          /\ stateFile' = stateFile]_vars

\* A run aborts in its setup with posts in the store and records in the state file.
C22_Witness ==
  /\ last.op \in SetupCauses
  /\ work.exit = "failure"
  /\ Len(postsFile) > 0
  /\ \E d \in Docs : stateFile[d] # NoRecord

----------------------------------------------------------------------------
(* A generation call that fails, under SpecDocs.                            *)

\* The generation call of the current document raised, or its response yielded no
\* accepted candidate.
GenerationFailed == last'.op \in {"generate raised", "no posts parsed"}

\* What the claim says of such a step apart from the tracker: nothing is appended, one
\* error is counted, the run goes on with the next document (or ends its loop).
FailedGenerationSkips ==
  /\ postsFile' = postsFile
  /\ work'.errors = work.errors + 1
  /\ work'.processed = work.processed /\ work'.skipped = work.skipped
  /\ work'.idx = work.idx + 1
  /\ work'.pc = IF work.idx < Len(work.inputFiles) THEN "check" ELSE "save"

\* C23 as stated: ... and the document is not marked processed, so that the next run
\* tries it again: the tracker state the run will save does not report it processed.
C23_OriginalFailedGeneration ==
  [][GenerationFailed =>
       /\ FailedGenerationSkips
       /\ ~isFileProcessed(CurrentFile, work'.state)]_vars

\* C23, amended: a document whose generation call raises, or whose response yields no
\* accepted candidate, gets no post appended, raises the error count by exactly one and
\* keeps the tracker record it had (the pass makes none), and the run goes on with the
\* next document; in a run without the force flag the tracker state therefore does not
\* report the document processed, and the next run tries it again.
C23_FailedGeneration ==
  [][GenerationFailed =>
       /\ FailedGenerationSkips
       /\ work'.state = work.state
       /\ ~work.force => ~isFileProcessed(CurrentFile, work'.state)]_vars

\* An unforced run has counted a failed generation for its first document, which has an
\* older record, and goes on with the second.
C23_Witness ==
  /\ last.op \in {"generate raised", "no posts parsed"}
  /\ ~work.force /\ work.pc = "check" /\ work.idx = 2 /\ work.errors = 1
  /\ work.state[work.inputFiles[1]] # NoRecord
  /\ ~isFileProcessed(work.inputFiles[1], work.state)

----------------------------------------------------------------------------
(* The counters of a run, under SpecDocs.                                   *)

\* C24 as stated: when a run reaches its summary, every input file the scanner found has
\* been counted in exactly one of processed, skipped and errors, an empty or unreadable
\* file included.
C24_CountersCoverFiles ==
  work.pc = "summary" =>
    work.processed + work.skipped + work.errors = Len(work.inputFiles)

----------------------------------------------------------------------------
(* The responses parseBangerEval must reject, under SpecEval.               *)

\* The response holds no object, or an object whose score is not a number, whose
\* breakdown is missing or is a number, a string or null, or whose reasoning is not text.
MistypedEval(c) ==
  \/ ~c.obj
  \/ c.score \notin {<<n>> : n \in Numerals}
  \/ c.breakdown \in {<<>>, <<"5">>, <<"0">>, JString(<<"high">>), <<"null">>}
  \/ c.reasoning \notin {JString(<<"Strong", "hook">>), JString(<<>>)}

\* C26 as stated: parseBangerEval returns null for every response with no object to
\* extract and for every object with a missing or mistyped field, a breakdown that is a
\* number or a string included.
C26_MistypedRejected ==
  (fn.op = "parseBangerEval" /\ fn.done /\ MistypedEval(fn.arg)) => fn.out.null

----------------------------------------------------------------------------
(* SpecClassify: ContentAnalyzer.analyzeTranscript on every answer of the   *)
(* backend and on transcripts around the two length thresholds.             *)

ShortBelow == 500       \* charCount < 500: short
LongAbove == 1500       \* charCount > 1500: long

\* transcript.length of the transcripts classified
CharCounts == {ShortBelow - 1, ShortBelow, LongAbove, LongAbove + 1}

ContentTypesTexts == {<<>>, <<"[", Q, "personal", Q, "]">>, JString(<<"personal">>)}
BooleanTexts == {<<>>, <<"true">>, JString(<<"yes">>)}
LengthTexts == {<<>>, JString(<<"short">>), JString(<<"huge">>), JString(<<>>), <<"5">>}
CountTexts == {<<>>, <<"150">>, JString(<<"150">>)}

\* An answer of the backend: an error raised, text with no object, an object that does
\* not parse (a comma before its closing brace), or an object of the members given
\* (<<>>: no such member). The four other booleans are always there and well typed.
AnalysisCases ==
  [form : {"error", "text", "broken", "object"}, contentTypes : ContentTypesTexts,
   hasPersonalStories : BooleanTexts, length : LengthTexts, characterCount : CountTexts]

AnalysisMembers(c) ==
  (IF c.contentTypes = <<>> THEN <<>> ELSE <<JMember("contentTypes", c.contentTypes)>>)
  \o (IF c.hasPersonalStories = <<>> THEN <<>>
      ELSE <<JMember("hasPersonalStories", c.hasPersonalStories)>>)
  \o <<JMember("hasActionableAdvice", <<"false">>),
       JMember("hasResourceMentions", <<"true">>),
       JMember("hasProjectContext", <<"true">>),
       JMember("hasStrongOpinions", <<"false">>)>>
  \o (IF c.length = <<>> THEN <<>> ELSE <<JMember("length", c.length)>>)
  \o (IF c.characterCount = <<>> THEN <<>>
      ELSE <<JMember("characterCount", c.characterCount)>>)

RenderAnalysis(c) ==
  CASE c.form = "object" ->
         <<"Analysis", ":", "{">> \o JoinWith(AnalysisMembers(c), ",") \o <<"}">>
    [] c.form = "broken" ->
         <<"{">> \o JoinWith(AnalysisMembers(c), ",") \o <<",", "}">>
    [] OTHER -> <<"I", "cannot", "analyze", "this">>

\* parseAnalysis: the first object of the response, parsed and validated; null
\* (Undefined here) when there is none, when it does not parse, or when a field fails
\* its test.
parseAnalysis(response) ==
  LET jsonMatch == MatchFirstObject(response)
  IN IF ~jsonMatch.found THEN Undefined
     ELSE LET parsed == JSONParse(jsonMatch.text)
          IN IF ~parsed.ok THEN Undefined
             ELSE IF \/ Get(parsed.v, "contentTypes").t # "array"
                     \/ \E key \in {"hasPersonalStories", "hasActionableAdvice",
                                    "hasResourceMentions", "hasProjectContext",
                                    "hasStrongOpinions"} :
                          TypeOf(Get(parsed.v, key)) # "boolean"
                     \/ ~Truthy(Get(parsed.v, "length"))
                     \/ TypeOf(Get(parsed.v, "characterCount")) # "number"
               THEN Undefined
             ELSE parsed.v

Member(key, v) == [k |-> <<key>>, v |-> v]

getDefaultAnalysis(charCount) ==
  LET length == IF charCount < ShortBelow THEN "short"
                ELSE IF charCount > LongAbove THEN "long"
                ELSE "medium"
  IN ObjectV(<<Member("contentTypes",
                      ArrayV(<<StringV(<<"educational">>), StringV(<<"opinion">>)>>)),
               Member("hasPersonalStories", LiteralV("false")),
               Member("hasActionableAdvice", LiteralV("true")),
               Member("hasResourceMentions", LiteralV("false")),
               Member("hasProjectContext", LiteralV("false")),
               Member("hasStrongOpinions", LiteralV("true")),
               Member("length", StringV(<<length>>)),
               Member("characterCount", NumberV(charCount))>>)

\* analyzeTranscript: the parsed analysis if there is one, the default otherwise and
\* when the call raises.
analyzeTranscript(c, charCount) ==
  IF c.form = "error" THEN getDefaultAnalysis(charCount)
  ELSE LET analysis == parseAnalysis(RenderAnalysis(c))
       IN IF Truthy(analysis) THEN analysis ELSE getDefaultAnalysis(charCount)

InitClassify ==
  \E c \in AnalysisCases, charCount \in CharCounts :
    InitWith([d \in Docs |-> [mtime |-> 1, kind |-> "text"]], <<>>,
             [op |-> "analyzeTranscript", arg |-> [c |-> c, charCount |-> charCount],
              done |-> FALSE, out |-> Undefined])

Classify ==
  /\ fn.op = "analyzeTranscript" /\ ~fn.done
  /\ fn' = [fn EXCEPT !.done = TRUE, !.out = analyzeTranscript(fn.arg.c, fn.arg.charCount)]
  /\ UNCHANGED <<files, stateFile, postsFile, drafts, work, review, pev, uuids, hist, last>>

NextClassify == Classify

SpecClassify == InitClassify /\ [][NextClassify]_vars

\* The backend raised, or its answer has no object that parses, or the object lacks a
\* field or has one of the wrong type, a length outside short, medium, long included.
InvalidAnalysis(c) ==
  \/ c.form # "object"
  \/ c.contentTypes # <<"[", Q, "personal", Q, "]">>
  \/ c.hasPersonalStories # <<"true">>
  \/ c.length # JString(<<"short">>)
  \/ c.characterCount # <<"150">>

\* The fallback profile of a transcript of that many characters.
IsFallback(profile, charCount) ==
  /\ Get(profile, "length") =
       StringV(<<IF charCount < 500 THEN "short"
                 ELSE IF charCount > 1500 THEN "long" ELSE "medium">>)
  /\ Get(profile, "hasActionableAdvice").t = "true"
  /\ Get(profile, "hasStrongOpinions").t = "true"
  /\ Get(profile, "hasPersonalStories").t = "false"
  /\ Get(profile, "hasResourceMentions").t = "false"
  /\ Get(profile, "hasProjectContext").t = "false"
  /\ Get(profile, "contentTypes").t = "array"
  /\ LET el == Get(profile, "contentTypes").el
     IN {el[j] : j \in 1..Len(el)} = {StringV(<<"educational">>), StringV(<<"opinion">>)}

\* C25 as stated: classify always returns a profile, and for a backend error or an
\* answer that is malformed, lacks a field or has a wrongly typed field (a length that
\* is not short, medium or long included) it returns the fallback profile.
C25_FallbackOnInvalid ==
  (fn.op = "analyzeTranscript" /\ fn.done) =>
    /\ fn.out.t = "object"
    /\ InvalidAnalysis(fn.arg.c) => IsFallback(fn.out, fn.arg.charCount)

----------------------------------------------------------------------------
(* The modification time a pass records, under Spec.                        *)

\* C27 as stated: the record a pass makes for a document holds the modification time
\* the document had when the pass read its content.
C27_RecordsTimeOfRead ==
  [][\A d \in Docs :
       (work.pc = "posts" /\ work'.pc # "idle" /\ work'.state[d] # work.state[d])
         => work'.state[d].modifiedAt = toISOString(work.readMtimes[d])]_vars

----------------------------------------------------------------------------
(* The passes of a run over its documents, under SpecDocs.                  *)

\* C28 as stated: for every document whose pass in the current run is over, either the
\* run's tracker state holds its record with postsGenerated equal to the number of posts
\* the pass appended, or the pass appended no post.
C28_PassAllOrNothing ==
  work.pc \in {"check", "generate", "posts", "save", "summary"} =>
    \A k \in 1..Len(work.inputFiles) :
      k < work.idx =>
        LET d == work.inputFiles[k]
        IN \/ work.appended[d] = 0
           \/ /\ work.state[d] # NoRecord
              /\ work.state[d].postsGenerated = work.appended[d]

----------------------------------------------------------------------------
(* What `posts --eval` changes in the store, under SpecAll.                 *)

\* The post but for its score and its evaluation.
WithoutEvaluation(post) ==
  [post EXCEPT !.bangerScore = {}, !.bangerEvaluation = NullEval]

\* C29: a step of `posts --eval` leaves the store with the same posts at the same
\* positions, each with its id, content, source, status and draft id; a post that has a
\* score keeps it and its evaluation; and the store changes only when a post that had no
\* score gets one.
C29_EvalOnlyAddsScores ==
  [][pev.pc = "eval" =>
       /\ Len(postsFile') = Len(postsFile)
       /\ \A j \in 1..Len(postsFile) :
            /\ WithoutEvaluation(postsFile'[j]) = WithoutEvaluation(postsFile[j])
            /\ postsFile[j].bangerScore # {} => postsFile'[j] = postsFile[j]
       /\ postsFile' # postsFile =>
            \E j \in 1..Len(postsFile) :
              postsFile[j].bangerScore = {} /\ postsFile'[j].bangerScore # {}]_vars

\* `posts --eval` has just rewritten the store: it gave a score to a post that a review
\* session had kept, next to a post that had its score from `work`, and left another
\* post without one.
C29_Witness ==
  /\ last.op = "PevEvaluate" /\ pev.pc = "idle"
  /\ \E j, k, l \in 1..Len(postsFile) :
       /\ j # k /\ postsFile[j].status = "keep" /\ postsFile[j].bangerScore # {}
       /\ postsFile[k].bangerScore # {} /\ postsFile[l].bangerScore = {}

----------------------------------------------------------------------------
(* SpecOverlap: a `work` run started in a second process while a review     *)
(* session or a `posts --eval` run is in progress.                          *)

\* `work` starts beside a session that has loaded the store; nothing in the command
\* looks for another process.
WorkStartBeside(force) ==
  /\ work.pc = "idle"
  /\ review.pc # "idle" \/ pev.pc # "idle"
  /\ uuids < MaxPosts
  /\ findInputFiles # <<>>
  /\ work' = [WorkIdle EXCEPT !.pc = "check", !.force = force, !.idx = 1,
                              !.inputFiles = findInputFiles, !.state = stateFile,
                              !.startMtimes = [d \in Docs |-> files[d].mtime]]
  /\ last' = NoStep
  /\ UNCHANGED <<files, stateFile, postsFile, drafts, review, pev, uuids, fn, hist>>

NextOverlap ==
  \/ \E force \in BOOLEAN : WorkStart(force)
  \/ \E force \in BOOLEAN : WorkStartBeside(force)
  \/ WorkCheck
  \/ WorkGenerateError
  \/ \E response \in TrackerGenResponses : WorkGenerate(response)
  \/ \E o \in AllOutcomes : WorkEvalAppend(o)
  \/ WorkSave
  \/ WorkExit
  \/ PevStart
  \/ \E o \in AllOutcomes : PevEvaluate(o)
  \/ ReviewStart({})
  \/ \E decision \in {"keep", "rejected"} : ReviewDecide(decision, TRUE)
  \/ ReviewQuit

SpecOverlap == InitScore /\ [][NextOverlap]_vars

\* C30 as stated: a post that `work` has appended is still in the store after every
\* later write of the store, the whole-file write of a review session or of a
\* `posts --eval` run that loaded the store before the append included.
C30_NoLostAppend ==
  [][\A j \in 1..Len(postsFile) :
       \E k \in 1..Len(postsFile') : postsFile'[k].id = postsFile[j].id]_vars

====
